---------------------------- MODULE Spec2Model ----------------------------
(***************************************************************************)
(* A model of AdvancedEconomicSim (Microgrid.py): the 24-hour dispatch     *)
(* loop of update_logic and the widget callbacks that re-run it.           *)
(*                                                                         *)
(* Quantities.  The program computes in binary floating point; the model   *)
(* computes in decimal fixed point.  Power and energy (kW, kWh) are        *)
(* integers counting 1/10000 of a unit, percentages count 1/10000 of a     *)
(* percent and money counts 1/1000000 of a currency unit (a power times a  *)
(* price in hundredths).  The multipliers passed to update_logic are whole *)
(* numbers.  The three shape curves, which the program evaluates with      *)
(* exp and sin, are tabulated to four decimals.                            *)
(***************************************************************************)
EXTENDS Integers, Sequences, FiniteSets, TLC

VARIABLES
    sld,              \* the five slider values: sol, wnd, dsl, lod, bat
    grid_active,      \* self.grid_active
    scheduler_active, \* self.scheduler_active
    show_cost_data,   \* self.show_cost_data
    args,             \* arguments of the current (or last) update_logic call
    h,                \* loop variable of update_logic
    soc,              \* local soc of update_logic, in 1/10000 kWh
    soc_history,      \* self.soc_history
    grid_flow,        \* self.grid_flow
    total_cost,       \* self.total_cost
    pc,               \* "run" inside the loop, "done" after return,
                      \* "raised" after an exception left update_logic
    remembered        \* history variable: one finished run kept for comparison

vars == <<sld, grid_active, scheduler_active, show_cost_data, args, h, soc,
          soc_history, grid_flow, total_cost, pc, remembered>>

-----------------------------------------------------------------------------
(* Arithmetic helpers *)

\* a whole number of kW / kWh in fixed point
Fix(x) == x * 10000

Min2(x, y) == IF x <= y THEN x ELSE y

Min3(x, y, z) == Min2(x, Min2(y, z))

Abs(x) == IF x < 0 THEN -x ELSE x

\* (soc / b_cap) * 100 in 1/10000 percent, rounded towards zero; b_cap # 0
Percent(s, b_cap) ==
    IF b_cap > 0
      THEN (IF s >= 0 THEN (s * 100) \div b_cap ELSE -(((-s) * 100) \div b_cap))
      ELSE (IF s >= 0 THEN -((s * 100) \div (-b_cap)) ELSE ((-s) * 100) \div (-b_cap))

-----------------------------------------------------------------------------
(* Program constants *)

init_solar == 50
init_wind == 20
init_diesel == 10
init_load == 30
init_batt == 100

\* prices in hundredths of a currency unit per kWh
grid_buy_price == 15
grid_sell_price == 8

Hours == 24

\* exp(-((h - 12)^2) / (2 * 3^2)) for h = 0..23, times 10000
SolarShape ==
    << 3, 12, 39, 111, 286, 657, 1353, 2494, 4111, 6065, 8007, 9460,
       10000, 9460, 8007, 6065, 4111, 2494, 1353, 657, 286, 111, 39, 12 >>

\* 0.6 + 0.4 * sin(h / 4) for h = 0..23, times 10000
WindShape ==
    << 6000, 6990, 7918, 8727, 9366, 9796, 9990, 9936, 9637, 9112, 8394, 7527,
       6564, 5567, 4597, 3714, 2973, 2420, 2090, 2003, 2164, 2564, 3178, 3967 >>

\* 1 + 0.8 * exp(-((h - 9)^2) / 2) + 1.2 * exp(-((h - 19)^2) / 4), times 10000
LoadShape ==
    << 10000, 10000, 10000, 10000, 10000, 10003, 10089, 11083, 14852, 18000,
       14852, 11083, 10089, 10004, 10023, 10220, 11265, 14415, 19346, 22000,
       19346, 14415, 11265, 10220 >>

\* faulty variant: the curve centred at hour 0 instead of hour 12
solar_uncentred(s_mul, hr) == s_mul * SolarShape[((hr + 12) % 24) + 1]

solar(s_mul, hr) == s_mul * SolarShape[hr + 1]

wind(w_mul, hr) == w_mul * WindShape[hr + 1]

load(l_mul, hr) == l_mul * LoadShape[hr + 1]

gen(a, hr) == solar(a.s_mul, hr) + wind(a.w_mul, hr) + Fix(a.d_mul)

net(a, hr) == gen(a, hr) - load(a.l_mul, hr)

-----------------------------------------------------------------------------
(* update_logic *)

\* faulty variant: the window ends an hour early
InWindow_short(sa, hr) == sa /\ 10 <= hr /\ hr < 14

InWindow(sa, hr) == sa /\ 10 <= hr /\ hr <= 14

\* faulty variant: the flow is not zeroed when islanded
ScheduledBranch_always_flow(n, b_cap, s, ga) ==
    LET charge_power == Min2(Fix(25), Fix(b_cap) - s)
    IN  [soc |-> s + charge_power, flow |-> charge_power - n]

\* faulty variant: the flow has the opposite sign
ScheduledBranch_flipped(n, b_cap, s, ga) ==
    LET charge_power == Min2(Fix(25), Fix(b_cap) - s)
    IN  [soc |-> s + charge_power,
         flow |-> IF ga THEN n - charge_power ELSE 0]

\* scheduled-charge branch: new soc and the hour's flow
ScheduledBranch(n, b_cap, s, ga) ==
    LET charge_power == Min2(Fix(25), Fix(b_cap) - s)
    IN  [soc |-> s + charge_power,
         flow |-> IF ga THEN charge_power - n ELSE 0]

\* faulty variant: the charge is not capped by the headroom
SurplusBranch_no_headroom(n, b_cap, s, ga) ==
    LET charge == Min2(n, Fix(20))
    IN  [soc |-> s + charge,
         flow |-> IF ga THEN -(n - charge) ELSE 0]

\* reactive branch, net > 0
SurplusBranch(n, b_cap, s, ga) ==
    LET charge == Min3(n, Fix(b_cap) - s, Fix(20))
    IN  [soc |-> s + charge,
         flow |-> IF ga THEN -(n - charge) ELSE 0]

\* faulty variant: the discharge is not capped at 20 kW
DeficitBranch_no_cap(n, b_cap, s, ga) ==
    LET needed == Abs(n)
        disch == Min2(needed, s)
    IN  [soc |-> s - disch,
         flow |-> IF ga THEN needed - disch ELSE 0]

\* reactive branch, net <= 0
DeficitBranch(n, b_cap, s, ga) ==
    LET needed == Abs(n)
        disch == Min3(needed, s, Fix(20))
    IN  [soc |-> s - disch,
         flow |-> IF ga THEN needed - disch ELSE 0]

HourBranch(a, hr, s, ga, sa) ==
    IF InWindow(sa, hr)
      THEN ScheduledBranch(net(a, hr), a.b_cap, s, ga)
      ELSE IF net(a, hr) > 0
             THEN SurplusBranch(net(a, hr), a.b_cap, s, ga)
             ELSE DeficitBranch(net(a, hr), a.b_cap, s, ga)

\* faulty variant: exports are priced at the buy price
HourCost_buy_only(flow) == flow * grid_buy_price

HourCost(flow) ==
    IF flow > 0 THEN flow * grid_buy_price ELSE flow * grid_sell_price

\* faulty variant: total_cost is not restarted
Prologue_keeps_cost(self, a) ==
    [a |-> a, h |-> 0, soc |-> Fix(a.b_cap) \div 2,
     soc_history |-> << >>, grid_flow |-> << >>,
     total_cost |-> self.total_cost, pc |-> "run"]

\* the statements before the loop; self is the object's state at the call
Prologue(self, a) ==
    [a |-> a, h |-> 0, soc |-> Fix(a.b_cap) \div 2,
     soc_history |-> << >>, grid_flow |-> << >>, total_cost |-> 0,
     pc |-> "run"]

\* one iteration of the loop.  With b_cap = 0 the division of line 71 raises
\* ZeroDivisionError (the arguments are Python floats, as at lines 8-9) after
\* line 70 has appended the hour's flow.  (A numpy float would record nan
\* there and go on; in both cases the loop has been entered.)
LoopBody(r, ga, sa) ==
    LET o == HourBranch(r.a, r.h, r.soc, ga, sa)
    IN  IF r.a.b_cap = 0
          THEN [r EXCEPT !.soc = o.soc,
                         !.grid_flow = Append(@, o.flow),
                         !.pc = "raised"]
          ELSE [r EXCEPT !.soc = o.soc,
                         !.grid_flow = Append(@, o.flow),
                         !.soc_history = Append(@, Percent(o.soc, r.a.b_cap)),
                         !.total_cost = @ + HourCost(o.flow),
                         !.h = @ + 1,
                         !.pc = IF r.h + 1 = Hours THEN "done" ELSE "run"]

RECURSIVE RunLoop(_, _, _)
RunLoop(r, ga, sa) ==
    IF r.pc # "run" THEN r ELSE RunLoop(LoopBody(r, ga, sa), ga, sa)

\* a whole call
update_logic(self, a, ga, sa) == RunLoop(Prologue(self, a), ga, sa)

-----------------------------------------------------------------------------
(* The object's state as records *)

\* the fields update_logic writes, with its locals
Logic ==
    [a |-> args, h |-> h, soc |-> soc, soc_history |-> soc_history,
     grid_flow |-> grid_flow, total_cost |-> total_cost, pc |-> pc]

SetLogic(r) ==
    /\ args' = r.a
    /\ h' = r.h
    /\ soc' = r.soc
    /\ soc_history' = r.soc_history
    /\ grid_flow' = r.grid_flow
    /\ total_cost' = r.total_cost
    /\ pc' = r.pc

InitArgs ==
    [s_mul |-> init_solar, w_mul |-> init_wind, d_mul |-> init_diesel,
     l_mul |-> init_load, b_cap |-> init_batt]

InitSld ==
    [sol |-> init_solar, wnd |-> init_wind, dsl |-> init_diesel,
     lod |-> init_load, bat |-> init_batt]

\* no fields exist before __init__ runs update_logic
Blank ==
    [a |-> InitArgs, h |-> 0, soc |-> 0, soc_history |-> << >>,
     grid_flow |-> << >>, total_cost |-> 0, pc |-> "done"]

\* nothing remembered yet
NoRun ==
    [set |-> FALSE, other |-> FALSE, input |-> << >>, soc_history |-> << >>,
     grid_flow |-> << >>, total_cost |-> 0, pc |-> "done"]

\* the state __init__ leaves
Init ==
    /\ sld = InitSld
    /\ grid_active = TRUE
    /\ scheduler_active = FALSE
    /\ show_cost_data = FALSE
    /\ LET r == update_logic(Blank, InitArgs, TRUE, FALSE)
       IN  /\ args = r.a
           /\ h = r.h
           /\ soc = r.soc
           /\ soc_history = r.soc_history
           /\ grid_flow = r.grid_flow
           /\ total_cost = r.total_cost
           /\ pc = r.pc
    /\ remembered = NoRun

-----------------------------------------------------------------------------
(* update_logic hour by hour, called with any arguments *)

SolarArgs == {0, 50}
WindArgs == {20, 100}
DieselArgs == {10}
LoadArgs == {30, 150}
BattArgs == {-20, 0, 20, 100}

ArgSpace ==
    [s_mul : SolarArgs, w_mul : WindArgs, d_mul : DieselArgs,
     l_mul : LoadArgs, b_cap : BattArgs]

\* a caller sets the two flags and calls update_logic: the statements before
\* the loop
Call ==
    /\ pc # "run"
    /\ \E a \in ArgSpace, ga \in BOOLEAN, sa \in BOOLEAN :
          /\ grid_active' = ga
          /\ scheduler_active' = sa
          /\ SetLogic(Prologue(Logic, a))
          /\ remembered' = IF remembered.set /\ <<a, ga, sa>> # remembered.input
                              THEN [remembered EXCEPT !.other = TRUE]
                              ELSE remembered
    /\ UNCHANGED <<sld, show_cost_data>>

Iterate ==
    /\ pc = "run"
    /\ SetLogic(LoopBody(Logic, grid_active, scheduler_active))
    /\ UNCHANGED <<sld, grid_active, scheduler_active, show_cost_data, remembered>>

ScheduledHour ==
    pc = "run" /\ InWindow(scheduler_active, h) /\ Iterate

SurplusHour ==
    pc = "run" /\ ~InWindow(scheduler_active, h) /\ net(args, h) > 0 /\ Iterate

DeficitHour ==
    pc = "run" /\ ~InWindow(scheduler_active, h) /\ net(args, h) <= 0 /\ Iterate

Next == Call \/ ScheduledHour \/ SurplusHour \/ DeficitHour

Spec == Init /\ [][Next]_vars

-----------------------------------------------------------------------------
(* The same calls with one finished run kept aside for comparison *)

Remember ==
    /\ pc # "run"
    /\ ~remembered.set
    /\ remembered' = [set |-> TRUE, other |-> FALSE,
                      input |-> <<args, grid_active, scheduler_active>>,
                      soc_history |-> soc_history, grid_flow |-> grid_flow,
                      total_cost |-> total_cost, pc |-> pc]
    /\ UNCHANGED <<sld, grid_active, scheduler_active, show_cost_data, args, h,
                   soc, soc_history, grid_flow, total_cost, pc>>

NextDet == Next \/ Remember

SpecDet == Init /\ [][NextDet]_vars

-----------------------------------------------------------------------------
(* The widget callbacks, each run to completion *)

Gui ==
    [sld |-> sld, grid_active |-> grid_active,
     scheduler_active |-> scheduler_active,
     show_cost_data |-> show_cost_data, logic |-> Logic]

SetGui(g) ==
    /\ sld' = g.sld
    /\ grid_active' = g.grid_active
    /\ scheduler_active' = g.scheduler_active
    /\ show_cost_data' = g.show_cost_data
    /\ SetLogic(g.logic)
    /\ UNCHANGED remembered

SldArgs(s) ==
    [s_mul |-> s.sol, w_mul |-> s.wnd, d_mul |-> s.dsl, l_mul |-> s.lod,
     b_cap |-> s.bat]

update_plot(g) ==
    [g EXCEPT !.logic = update_logic(g.logic, SldArgs(g.sld), g.grid_active,
                                     g.scheduler_active)]

\* Slider.set_val: stores the value and calls the on_changed callback
set_val(g, name, v) == update_plot([g EXCEPT !.sld[name] = v])

\* Slider.reset: set_val(valinit) unless the value is valinit already
reset(g, name) ==
    IF g.sld[name] # InitSld[name] THEN set_val(g, name, InitSld[name]) ELSE g

reset_defaults(g) ==
    LET g5 == reset(reset(reset(reset(reset(g, "sol"), "wnd"), "dsl"), "lod"), "bat")
    IN  update_plot([g5 EXCEPT !.grid_active = TRUE, !.scheduler_active = FALSE])

toggle_cost_visibility(g) == [g EXCEPT !.show_cost_data = ~@]

toggle_scheduler(g) == update_plot([g EXCEPT !.scheduler_active = ~@])

set_storm(g) ==
    update_plot(set_val(set_val(set_val(g, "sol", 0), "wnd", 100), "dsl", 30))

set_clear(g) ==
    update_plot(set_val(set_val(set_val(g, "sol", 50), "wnd", 20), "dsl", 10))

\* faulty variant: the flag is flipped without recomputing
toggle_grid_no_update(g) == [g EXCEPT !.grid_active = ~@]

toggle_grid(g) == update_plot([g EXCEPT !.grid_active = ~@])

\* values a slider is dragged to, inside the ranges of lines 118-122
DragVals ==
    [sol |-> {0, 50, 100}, wnd |-> {20, 100}, dsl |-> {10, 30},
     lod |-> {30, 150}, bat |-> {20, 100, 500}]

\* the user moves one slider to another value
SliderChanged ==
    /\ pc = "done"
    /\ \E name \in DOMAIN DragVals : \E v \in DragVals[name] :
          /\ v # sld[name]
          /\ SetGui(set_val(Gui, name, v))

ClickStorm == pc = "done" /\ SetGui(set_storm(Gui))

ClickClear == pc = "done" /\ SetGui(set_clear(Gui))

ClickGridToggle == pc = "done" /\ SetGui(toggle_grid(Gui))

ClickScheduler == pc = "done" /\ SetGui(toggle_scheduler(Gui))

ClickReset == pc = "done" /\ SetGui(reset_defaults(Gui))

ClickCostToggle == pc = "done" /\ SetGui(toggle_cost_visibility(Gui))

NextGui ==
    \/ SliderChanged
    \/ ClickStorm
    \/ ClickClear
    \/ ClickGridToggle
    \/ ClickScheduler
    \/ ClickReset
    \/ ClickCostToggle

SpecGui == Init /\ [][NextGui]_vars

-----------------------------------------------------------------------------
(* Properties *)

\* the hour's flow, just appended
LastFlow(flows) == flows[Len(flows)]

ValidRun == args.b_cap > 0

\* a scheduled-charge hour, as the claims word it
WindowHour(hr) == scheduler_active /\ hr \in 10..14

\* C1: with battery_capacity > 0 the battery energy stays within
\* 0..battery_capacity after every hour of a run, every recorded percentage
\* stays within 0..100, and the run starts from half the capacity.
C1_SocWithinCapacity ==
    ValidRun =>
        /\ 0 <= soc /\ soc <= Fix(args.b_cap)
        /\ \A i \in DOMAIN soc_history :
              0 <= soc_history[i] /\ soc_history[i] <= Fix(100)
        /\ (pc = "run" /\ h = 0 => 2 * soc = Fix(args.b_cap))

\* a finished valid run, islanded and scheduled, that was both full and empty
\* at some hour
C1_Witness ==
    /\ ValidRun /\ pc = "done" /\ ~grid_active /\ scheduler_active
    /\ \E i \in DOMAIN soc_history : soc_history[i] = Fix(100)
    /\ \E i \in DOMAIN soc_history : soc_history[i] = 0

\* C2: with battery_capacity <= 0 the call fails before hour 0: nothing is
\* recorded, no cost is accumulated and the call does not return normally.
C2_InvalidConfigurationRejected ==
    args.b_cap <= 0 =>
        /\ grid_flow = << >>
        /\ soc_history = << >>
        /\ total_cost = 0
        /\ pc # "done"

\* C3: when the grid is not connected every hourly grid flow is 0 and the
\* total cost is 0, also when the scheduled charge runs during a deficit.
C3_Islanded ==
    ~grid_active =>
        /\ \A i \in DOMAIN grid_flow : grid_flow[i] = 0
        /\ total_cost = 0

\* an islanded finished run whose battery was charged in a window hour of
\* deficit
C3_Witness ==
    /\ ~grid_active /\ scheduler_active /\ pc = "done" /\ ValidRun
    /\ \E k \in 10..14 :
          net(args, k) < 0 /\ soc_history[k + 1] > soc_history[k]

\* C4: with the scheduler active, every hour 10..14 raises the battery energy
\* by exactly min(25, capacity - energy before), whatever net is and whether
\* or not the grid is connected, and never lowers it; an hour outside 10..14
\* never charges by more than the reactive 20 and never charges on a deficit.
C4_SchedulerOverride ==
    [][(pc = "run" /\ scheduler_active) =>
          IF h \in 10..14
            THEN /\ soc' - soc = Min2(250000, Fix(args.b_cap) - soc)
                 /\ (ValidRun => soc' >= soc)
            ELSE /\ soc' - soc <= 200000
                 /\ (ValidRun /\ net(args, h) <= 0 => soc' <= soc)]_vars

\* after a window hour of deficit the battery holds more than before it, and
\* the window once charged by less than 25 because the battery got full
C4_Witness ==
    /\ scheduler_active /\ pc = "done" /\ ValidRun
    /\ \E k \in 10..14 :
          net(args, k) < 0 /\ soc_history[k + 1] > soc_history[k]
    /\ \E k \in 10..14 :
          /\ soc_history[k + 1] = Fix(100)
          /\ soc_history[k] < Fix(100)
          /\ soc_history[k] > Fix(100) - Percent(250000, args.b_cap)

RECURSIVE C5_PricedSum(_)
C5_PricedSum(flows) ==
    IF flows = << >>
      THEN 0
      ELSE LET f == flows[Len(flows)]
           IN  C5_PricedSum(SubSeq(flows, 1, Len(flows) - 1))
                 + (IF f > 0 THEN f * 15 ELSE f * 8)

\* C5: total_cost is the sum over the recorded hours of the flow times 0.15
\* for an import and times 0.08 otherwise; a flow of 10 adds 1.5 and a flow
\* of -10 adds -0.8.
C5_CostIsPricedSum ==
    /\ pc # "raised" => total_cost = C5_PricedSum(grid_flow)
    /\ HourCost(Fix(10)) = 1500000
    /\ HourCost(-Fix(10)) = -800000
    /\ HourCost(0) = 0

\* a finished scheduled run with an import hour, an export hour and a
\* zero-flow hour
C5_Witness ==
    /\ pc = "done" /\ grid_active /\ scheduler_active
    /\ \E i \in DOMAIN grid_flow : grid_flow[i] > 0
    /\ \E i \in DOMAIN grid_flow : grid_flow[i] < 0
    /\ \E i \in DOMAIN grid_flow : grid_flow[i] = 0

\* C6: a run with the inputs of the remembered run ends with the remembered
\* grid_flow, soc_percent and total_cost, whatever ran in between; every run
\* starts from half the capacity, cost 0 and empty histories.
C6_Deterministic ==
    /\ (remembered.set /\ pc # "run"
          /\ remembered.input = <<args, grid_active, scheduler_active>>) =>
            /\ grid_flow = remembered.grid_flow
            /\ soc_history = remembered.soc_history
            /\ total_cost = remembered.total_cost
            /\ pc = remembered.pc
    /\ (pc = "run" /\ h = 0) =>
            /\ 2 * soc = Fix(args.b_cap)
            /\ total_cost = 0
            /\ soc_history = << >> /\ grid_flow = << >>

\* the remembered inputs were run again after a run with other inputs
C6_Witness ==
    /\ remembered.set /\ remembered.other /\ pc = "done"
    /\ remembered.input = <<args, grid_active, scheduler_active>>
    /\ remembered.total_cost # 0

DefaultRun == args = InitArgs /\ grid_active /\ ~scheduler_active

\* C7 as stated: with the defaults hour 0 leaves 42.05 kWh, 42.05 percent,
\* a grid flow of 0 and no cost (two decimals).
C7_Original ==
    (DefaultRun /\ pc = "run" /\ h = 1) =>
        /\ 420450 <= soc /\ soc < 420550
        /\ 420450 <= soc_history[1] /\ soc_history[1] < 420550
        /\ grid_flow[1] = 0
        /\ total_cost = 0

\* C7 amended: with the defaults hour 0 is a deficit hour whose need is below
\* 20 kW and is met by the battery alone; it leaves about 42.02 kWh (between
\* 42.01 and 42.02), the same percentage, a grid flow of 0 and no cost.
C7_DefaultHourZero ==
    (DefaultRun /\ pc = "run" /\ h = 1) =>
        /\ net(args, 0) < 0 /\ -net(args, 0) < Fix(20)
        /\ soc = Fix(50) + net(args, 0)
        /\ 420100 <= soc /\ soc <= 420200
        /\ 420100 <= soc_history[1] /\ soc_history[1] <= 420200
        /\ grid_flow[1] = 0
        /\ total_cost = 0

C7_Witness == DefaultRun /\ pc = "run" /\ h = 1 /\ soc < Fix(50)

\* C8: in a reactive hour a surplus only charges, by min(net, headroom, 20),
\* and with the grid connected the flow is -(net - charge) <= 0; a deficit
\* only discharges, by min(|net|, energy, 20), and with the grid connected
\* the flow is |net| - discharge >= 0.
C8_Reactive ==
    [][(pc = "run" /\ ~WindowHour(h)) =>
          LET n == net(args, h)
              f == LastFlow(grid_flow')
          IN  IF n > 0
                THEN /\ soc' - soc = Min3(n, Fix(args.b_cap) - soc, 200000)
                     /\ (ValidRun => soc' >= soc)
                     /\ (grid_active => f = -(n - (soc' - soc)) /\ f <= 0)
                ELSE /\ soc - soc' = Min3(-n, soc, 200000)
                     /\ (ValidRun => soc' <= soc)
                     /\ (grid_active => f = (-n) - (soc - soc') /\ f >= 0)]_vars

\* a connected run without scheduler that exported a surplus the battery
\* could not take and imported a deficit above the 20 kW discharge cap
C8_Witness ==
    /\ pc = "done" /\ grid_active /\ ~scheduler_active /\ ValidRun
    /\ args.w_mul = 100
    /\ \E k \in 0..23 : net(args, k) > 0 /\ grid_flow[k + 1] < 0
    /\ \E k \in 1..23 :
          /\ net(args, k) < -Fix(20)
          /\ soc_history[k] - soc_history[k + 1] = Percent(200000, args.b_cap)
          /\ grid_flow[k + 1] > 0

\* C9: with the grid connected the flow of every hour, scheduled or reactive,
\* is the change of the battery energy minus net; so a scheduled hour imports
\* exactly when the forced charge exceeds net and exports exactly when net
\* exceeds it.
C9_EnergyBalance ==
    [][(pc = "run" /\ grid_active) =>
          LET n == net(args, h)
              f == LastFlow(grid_flow')
          IN  /\ f = (soc' - soc) - n
              /\ WindowHour(h) =>
                    /\ (f > 0 <=> Min2(250000, Fix(args.b_cap) - soc) > n)
                    /\ (f < 0 <=> n > Min2(250000, Fix(args.b_cap) - soc))]_vars

\* a connected scheduled run that imported in one window hour and exported
\* in another
C9_Witness ==
    /\ pc = "done" /\ grid_active /\ scheduler_active /\ ValidRun
    /\ \E k \in 10..14 : grid_flow[k + 1] > 0
    /\ \E k \in 10..14 : grid_flow[k + 1] < 0

Results == <<grid_flow, soc_history, total_cost>>

ResultsOf(r) == <<r.grid_flow, r.soc_history, r.total_cost>>

\* C10: after every callback the stored results are those of a fresh run of
\* the current slider values and flags; after reset_defaults they are the
\* results computed at start-up.
C10_ResultsFollowInputs ==
    /\ [](Results = ResultsOf(RunLoop(
              [a |-> SldArgs(sld), h |-> 0, soc |-> Fix(sld.bat) \div 2,
               soc_history |-> << >>, grid_flow |-> << >>, total_cost |-> 0,
               pc |-> "run"], grid_active, scheduler_active)))
    /\ [][ClickReset =>
            Results' = ResultsOf(update_logic(Blank, InitArgs, TRUE, FALSE))]_vars

\* callbacks have changed sliders and both flags, and the stored results
\* differ from those of start-up
C10_Witness ==
    /\ sld.sol = 0 /\ sld.wnd = 100 /\ sld.bat = 20
    /\ ~grid_active /\ scheduler_active
    /\ Results # ResultsOf(update_logic(Blank, InitArgs, TRUE, FALSE))

=============================================================================
